---- MODULE Spec2Model ----
(***************************************************************************)
(* A model of app.py, the motorcycle-accident dashboard.                   *)
(*                                                                         *)
(* One script run of the Streamlit session is a sequence of steps:         *)
(*   load_fast_data -> analyze_motorcycle_data -> sidebar widgets ->       *)
(*   filter -> tab1 .. tab5,                                               *)
(* with st.stop() and an uncaught exception as the other ways out.         *)
(*                                                                         *)
(* Tables (DataFrames) are sequences of rows; a row is a record of its     *)
(* columns plus idx, the pandas index label the row keeps through every    *)
(* boolean-mask selection.  Column names are transliterated:               *)
(*   category  當事者區分-類別-大類別名稱-車種                             *)
(*   time      發生時間            time_num 發生時間_num   hour 發生小時   *)
(*   date      發生日期            date_dt  發生日期_dt    month 發生月份  *)
(*   weekday   發生星期            period   時段 (週末/平日)               *)
(*   age_raw   當事者事故發生時年齡   age 年齡   age_band 年齡層           *)
(*   cause_raw 肇因研判子類別名稱-主要   cause 肇因                        *)
(*   weather_raw 天候名稱  weather 天候                                    *)
(*   city_raw  處理單位名稱警局層   city 縣市                              *)
(*   lat_raw   緯度   lon_raw 經度                                         *)
(* String literals are transliterated too:                                 *)
(*   "ji","che" 機,車     "Unknown" 未知     "Other" 其他                  *)
(*   "NoDriverFactor"   無(非車輛駕駛人因素)                               *)
(*   "NoFactorFoundYet" 尚未發現肇事因素                                   *)
(*   "TaipeiCityPolice" 臺北市政府警察局                                   *)
(*   "All" 全部   "Weekday" 平日 (一至五)   "Weekend" 週末 (六/日)         *)
(***************************************************************************)
EXTENDS Integers, Sequences, FiniteSets, TLC

VARIABLES
    artifact_present,    \* whether all_accidents_data.parquet exists
    artifact,            \* the table stored in it
    pc,                  \* position of the script run
    df_full_data,        \* app.py:79
    df_motorcycle_data,  \* app.py:82
    selected_cities,     \* app.py:90
    month_range,         \* app.py:91
    selected_weather,    \* app.py:93
    selected_period,     \* app.py:94
    map_points_slider,   \* app.py:95
    filtered_data,       \* app.py:98-104
    map_data,            \* app.py:149-152
    ops,                 \* dataframe / rendering operations performed in this run
    messages             \* st.error / st.success / st.warning / st.info shown in this run

vars == <<artifact_present, artifact, pc, df_full_data, df_motorcycle_data,
          selected_cities, month_range, selected_weather, selected_period,
          map_points_slider, filtered_data, map_data, ops, messages>>

(***************************************************************************)
(* Bounds of the model.                                                    *)
(***************************************************************************)
\* longest raw table given to the pipeline specification
MaxRows == 2
\* longest raw table given to the session specification
MaxSessionRows == 3
\* The sample-size slider of app.py:95 ranges over 1000..20000 in steps of
\* 1000.  Tables of the model have a handful of rows, so the slider is scaled
\* to MapPointsMin..MapPointsMax in steps of 1: both outcomes of the
\* comparison len(filtered_data) > map_points_slider stay reachable.
MapPointsMin == 1
MapPointsMax == 2

(***************************************************************************)
(* Cells.                                                                  *)
(***************************************************************************)
\* a missing text cell (None / NaN in an object column)
NoneStr == "<NA>"
\* a float cell: NaN or a number
NaN == [nan |-> TRUE, v |-> 0]
Num(n) == [nan |-> FALSE, v |-> n]
\* a datetime cell: NaT or a calendar date
NaT == [nat |-> TRUE, y |-> 0, m |-> 0, d |-> 0]
Timestamp(y, m, d) == [nat |-> FALSE, y |-> y, m |-> m, d |-> d]

\* Raw numeric-looking cells: an integer, a text (a sequence of characters),
\* or null.
IntCell(n) == [kind |-> "int", n |-> n, chars |-> <<>>]
TextCell(cs) == [kind |-> "text", n |-> 0, chars |-> cs]
NullCell == [kind |-> "null", n |-> 0, chars |-> <<>>]

\* Raw date cells: the text "y-m-d", any other text, an integer, or null.
DateText(y, m, d) == [kind |-> "ymd", y |-> y, m |-> m, d |-> d]
DateJunk == [kind |-> "junk", y |-> 0, m |-> 0, d |-> 0]
DateInt(n) == [kind |-> "int", y |-> n, m |-> 0, d |-> 0]
DateNull == [kind |-> "null", y |-> 0, m |-> 0, d |-> 0]

(***************************************************************************)
(* pandas helpers, as the pipeline uses them.                              *)
(***************************************************************************)
Digits == {"0", "1", "2", "3", "4", "5", "6", "7", "8", "9"}

DigitValue(ch) ==
    CASE ch = "0" -> 0 [] ch = "1" -> 1 [] ch = "2" -> 2 [] ch = "3" -> 3
      [] ch = "4" -> 4 [] ch = "5" -> 5 [] ch = "6" -> 6 [] ch = "7" -> 7
      [] ch = "8" -> 8 [] ch = "9" -> 9

RECURSIVE ParseDigits(_)
ParseDigits(cs) ==
    IF Len(cs) = 0 THEN 0
    ELSE 10 * ParseDigits(SubSeq(cs, 1, Len(cs) - 1)) + DigitValue(cs[Len(cs)])

\* pd.to_numeric(errors='coerce'), one cell
to_numeric(c) ==
    CASE c.kind = "int" -> Num(c.n)
      [] c.kind = "text" ->
            IF Len(c.chars) > 0 /\ \A i \in 1..Len(c.chars) : c.chars[i] \in Digits
            THEN Num(ParseDigits(c.chars))
            ELSE NaN
      [] OTHER -> NaN

IsLeap(y) == (y % 4 = 0 /\ y % 100 # 0) \/ y % 400 = 0

DaysInMonth(y, m) ==
    CASE m \in {1, 3, 5, 7, 8, 10, 12} -> 31
      [] m \in {4, 6, 9, 11} -> 30
      [] OTHER -> IF IsLeap(y) THEN 29 ELSE 28

\* pd.to_datetime(errors='coerce'), one cell; an integer is a count of
\* nanoseconds since 1970-01-01
to_datetime(c) ==
    CASE c.kind = "ymd" ->
            IF c.m \in 1..12 /\ c.d \in 1..DaysInMonth(c.y, c.m)
            THEN Timestamp(c.y, c.m, c.d)
            ELSE NaT
      [] c.kind = "int" -> Timestamp(1970, 1, 1)
      [] OTHER -> NaT

\* Series.dt.dayofweek: Monday = 0 .. Sunday = 6
dayofweek(ts) ==
    LET t == <<0, 3, 2, 5, 0, 3, 5, 1, 4, 6, 2, 4>>
        y == IF ts.m < 3 THEN ts.y - 1 ELSE ts.y
        sun0 == (y + (y \div 4) - (y \div 100) + (y \div 400) + t[ts.m] + ts.d) % 7
    IN (sun0 + 6) % 7

\* Series.fillna(value), one cell
fillna(v, default) == IF v = NoneStr THEN default ELSE v

\* Series.between(lo, hi), one float cell: inclusive, NaN is False
between(x, lo, hi) == ~x.nan /\ lo <= x.v /\ x.v <= hi

\* Series.astype(str), one cell of the category column
astype_str(c) == IF c = <<NoneStr>> THEN <<"N", "o", "n", "e">> ELSE c

\* Series.str.contains(pat): pat occurs as a substring
str_contains(s, pat) ==
    \E i \in 1..(Len(s) - Len(pat) + 1) : SubSeq(s, i, i + Len(pat) - 1) = pat

bins == <<0, 17, 24, 34, 44, 54, 64, 99>>
labels == <<"0-17", "18-24", "25-34", "35-44", "45-54", "55-64", "65+">>

\* pd.cut(x, bins, labels, right=True), one value: intervals (bins[i], bins[i+1]]
cut(x) ==
    IF \E i \in 1..Len(labels) : bins[i] < x /\ x <= bins[i + 1]
    THEN labels[CHOOSE i \in 1..Len(labels) : bins[i] < x /\ x <= bins[i + 1]]
    ELSE NoneStr

Idx(df) == {df[i].idx : i \in 1..Len(df)}
Rows(df) == {df[i] : i \in 1..Len(df)}

(***************************************************************************)
(* analyze_motorcycle_data, step by step.  Every step takes the table the  *)
(* previous step left and returns the table it leaves.                     *)
(***************************************************************************)
\* app.py:30  keep the rows whose category text contains "機車"
Step_category(df) ==
    SelectSeq(df, LAMBDA r : str_contains(astype_str(r.category), <<"ji", "che">>))

\* the hour taken as if the time were HHMM
hour_of_div100(time_num) == time_num \div 100

\* app.py:35  (time_num // 10000).astype(int)
hour_of(time_num) == time_num \div 10000

\* app.py:33-35
Step_time(df) ==
    LET a == [i \in 1..Len(df) |-> [time_num |-> to_numeric(df[i].time)] @@ df[i]]
        b == SelectSeq(a, LAMBDA r : ~r.time_num.nan)
    IN [i \in 1..Len(b) |-> [hour |-> hour_of(b[i].time_num.v)] @@ b[i]]

\* the day of the week left 0-based
weekday_of_zero_based(ts) == dayofweek(ts)

\* app.py:40  dt.dayofweek + 1
weekday_of(ts) == dayofweek(ts) + 1

\* app.py:43  the lambda giving the period label
period_of(x) == IF x >= 6 THEN "Weekend" ELSE "Weekday"

\* app.py:37-43
Step_date(df) ==
    LET a == [i \in 1..Len(df) |-> [date_dt |-> to_datetime(df[i].date)] @@ df[i]]
        b == SelectSeq(a, LAMBDA r : ~r.date_dt.nat)
        c == [i \in 1..Len(b) |->
                [month |-> b[i].date_dt.m, weekday |-> weekday_of(b[i].date_dt)] @@ b[i]]
    IN [i \in 1..Len(c) |-> [period |-> period_of(c[i].weekday)] @@ c[i]]

\* app.py:46-50
Step_age(df) ==
    LET a == [i \in 1..Len(df) |-> [age |-> to_numeric(df[i].age_raw)] @@ df[i]]
        b == SelectSeq(a, LAMBDA r : between(r.age, 0, 99))
    IN [i \in 1..Len(b) |-> [age_band |-> cut(b[i].age.v)] @@ b[i]]

ExcludedCauses == {"NoDriverFactor", "NoFactorFoundYet"}

\* the cause exclusion computed and not assigned back
Step_cause_keeps_excluded(df) ==
    [i \in 1..Len(df) |-> [cause |-> fillna(df[i].cause_raw, "Unknown")] @@ df[i]]

\* app.py:53-56
Step_cause(df) ==
    LET a == [i \in 1..Len(df) |-> [cause |-> fillna(df[i].cause_raw, "Unknown")] @@ df[i]]
    IN SelectSeq(a, LAMBDA r : r.cause \notin ExcludedCauses)

\* app.py:58-66  the default-filled copies (those the session reads)
Step_fill(df) ==
    [i \in 1..Len(df) |->
        [weather |-> fillna(df[i].weather_raw, "Other"),
         city |-> fillna(df[i].city_raw, "Unknown")] @@ df[i]]

\* app.py:69-70
assign_lat_lon(df) ==
    [i \in 1..Len(df) |->
        [lat |-> to_numeric(df[i].lat_raw), lon |-> to_numeric(df[i].lon_raw)] @@ df[i]]

\* app.py:69-71
Step_latlon(df) ==
    SelectSeq(assign_lat_lon(df), LAMBDA r : ~r.lat.nan /\ ~r.lon.nan)

\* the pipeline with the coordinate drop of its last step lost
analyze_keeps_bad_coordinates(df) ==
    assign_lat_lon(Step_fill(Step_cause(Step_age(Step_date(Step_time(Step_category(df)))))))

\* app.py:28-73
analyze_motorcycle_data(df) ==
    Step_latlon(Step_fill(Step_cause(Step_age(Step_date(Step_time(Step_category(df)))))))

(***************************************************************************)
(* The raw tables the specifications start from.                           *)
(***************************************************************************)
Raw(category, time, date, age, cause, weather, city, lat, lon) ==
    [category |-> category, time |-> time, date |-> date, age_raw |-> age,
     cause_raw |-> cause, weather_raw |-> weather, city_raw |-> city,
     lat_raw |-> lat, lon_raw |-> lon]

\* 普通重型機車, 小客車
Motorcycle == <<"pu", "tong", "zhong", "xing", "ji", "che">>
Car == <<"xiao", "ke", "che">>

\* a well-formed motorcycle row: 14:30:00 on Friday 2024-03-15, age 30
BaseRow ==
    Raw(Motorcycle, IntCell(143000), DateText(2024, 3, 15), IntCell(30), NoneStr,
        "Sunny", "TaipeiCityPolice", IntCell(25), IntCell(121))

Categories == {Motorcycle, Car, <<NoneStr>>, <<"che", "ji">>}

Times ==
    {IntCell(0), IntCell(1430), IntCell(143000), IntCell(235959), IntCell(240000),
     TextCell(<<"9", "3", "0", "0", "0">>), TextCell(<<"1", "4", ":", "3", "0">>),
     NullCell}

Dates ==
    {DateText(2024, 3, 15), DateText(2024, 3, 16), DateText(2024, 3, 17),
     DateText(2024, 3, 18), DateText(2024, 12, 31), DateText(2024, 2, 29),
     DateText(2023, 2, 29), DateText(2024, 13, 1), DateInt(20240315), DateJunk,
     DateNull}

Ages ==
    {IntCell(a) : a \in {-1, 0, 1, 17, 18, 30, 64, 65, 99, 100}}
        \cup {TextCell(<<"4", "4">>), TextCell(<<"x">>), NullCell}

Causes == {NoneStr, "FailToYield", "NoDriverFactor", "NoFactorFoundYet"}
Weathers == {NoneStr, "Sunny", "Rain"}
Cities == {NoneStr, "TaipeiCityPolice", "KaohsiungCityPolice"}
Coordinates == {IntCell(25), IntCell(121), TextCell(<<"N">>), NullCell}

\* the rows of the pipeline specification: BaseRow with one column varied,
\* and rows with several defects at once
PipelineRows ==
    {[BaseRow EXCEPT !.category = c] : c \in Categories}
        \cup {[BaseRow EXCEPT !.time = t] : t \in Times}
        \cup {[BaseRow EXCEPT !.date = d] : d \in Dates}
        \cup {[BaseRow EXCEPT !.age_raw = a] : a \in Ages}
        \cup {[BaseRow EXCEPT !.cause_raw = c] : c \in Causes}
        \cup {[BaseRow EXCEPT !.weather_raw = w] : w \in Weathers}
        \cup {[BaseRow EXCEPT !.city_raw = c] : c \in Cities}
        \cup {[BaseRow EXCEPT !.lat_raw = x] : x \in Coordinates}
        \cup {[BaseRow EXCEPT !.lon_raw = x] : x \in Coordinates}
        \cup {[BaseRow EXCEPT !.category = Car, !.time = NullCell],
              [BaseRow EXCEPT !.date = DateJunk, !.lat_raw = NullCell],
              [BaseRow EXCEPT !.age_raw = IntCell(0), !.cause_raw = "NoFactorFoundYet"]}

\* the rows of the session specification
SessionRows ==
    {BaseRow,
     [BaseRow EXCEPT !.date = DateText(2024, 3, 16), !.city_raw = NoneStr,
                     !.weather_raw = NoneStr],
     [BaseRow EXCEPT !.date = DateText(2024, 12, 31), !.city_raw = "KaohsiungCityPolice"],
     [BaseRow EXCEPT !.category = Car]}

\* the table holding the rows t, each labelled with its position
Table(t) == [i \in 1..Len(t) |-> [idx |-> i] @@ t[i]]

(***************************************************************************)
(* The session.                                                            *)
(***************************************************************************)
\* app.py:91  st.sidebar.slider(..., 1, 12, (1, 12))
MonthMin == 1
MonthMax == 12
\* the slider positions the model lets the user pick as range ends
MonthStops == {MonthMin, 3, MonthMax}

Periods == {"All", "Weekday", "Weekend"}

Aggregations == {"groupby", "value_counts", "crosstab"}
Rendering == {"chart", "map", "table"}

\* the snapshot is absent, or holds a table of at most n rows over S
InitWith(S, n) ==
    /\ \/ /\ artifact_present = TRUE
          /\ \E k \in 0..n : \E t \in [1..k -> S] : artifact = Table(t)
       \/ /\ artifact_present = FALSE
          /\ artifact = <<>>
    /\ pc = "start"
    /\ df_full_data = <<>>
    /\ df_motorcycle_data = <<>>
    /\ selected_cities = {}
    /\ month_range = <<MonthMin, MonthMax>>
    /\ selected_weather = {}
    /\ selected_period = "All"
    /\ map_points_slider = MapPointsMin
    /\ filtered_data = <<>>
    /\ map_data = <<>>
    /\ ops = {}
    /\ messages = {}

Init == InitWith(SessionRows, MaxSessionRows)

InitPipeline == InitWith(PipelineRows, MaxRows)

\* the Loader reporting the missing file and returning instead of stopping
load_fast_data_without_stop ==
    /\ pc = "start"
    /\ df_full_data' = artifact
    /\ ops' = ops \cup {"read_parquet"}
    /\ messages' = IF artifact_present THEN messages ELSE messages \cup {"error"}
    /\ pc' = "loaded"
    /\ UNCHANGED <<artifact_present, artifact, df_motorcycle_data, selected_cities,
                   month_range, selected_weather, selected_period, map_points_slider,
                   filtered_data, map_data>>

\* app.py:15-23 and 79
load_fast_data ==
    /\ pc = "start"
    /\ IF artifact_present
       THEN /\ df_full_data' = artifact
            /\ ops' = ops \cup {"read_parquet"}
            /\ pc' = "loaded"
            /\ UNCHANGED messages
       ELSE /\ messages' = messages \cup {"error"}
            /\ pc' = "stopped_missing"
            /\ UNCHANGED <<df_full_data, ops>>
    /\ UNCHANGED <<artifact_present, artifact, df_motorcycle_data, selected_cities,
                   month_range, selected_weather, selected_period, map_points_slider,
                   filtered_data, map_data>>

\* app.py:82-84
analyze ==
    /\ pc = "loaded"
    /\ df_motorcycle_data' = analyze_motorcycle_data(df_full_data)
    /\ ops' = ops \cup {"analyze"}
    /\ messages' = messages \cup {"success"}
    /\ pc' = "analyzed"
    /\ UNCHANGED <<artifact_present, artifact, df_full_data, selected_cities,
                   month_range, selected_weather, selected_period, map_points_slider,
                   filtered_data, map_data>>

\* app.py:88  sorted(df['縣市'].unique()), as the set of its members
all_cities == {df_motorcycle_data[i].city : i \in 1..Len(df_motorcycle_data)}

\* app.py:92
weather_options == {df_motorcycle_data[i].weather : i \in 1..Len(df_motorcycle_data)}

\* app.py:89  evaluating default_city raises IndexError: all_cities[0] of an empty list
default_city_raises == "TaipeiCityPolice" \notin all_cities /\ all_cities = {}

\* app.py:87-95  the widgets return what the user has set them to
sidebar ==
    /\ pc = "analyzed"
    /\ IF default_city_raises
       THEN /\ pc' = "crashed"
            /\ UNCHANGED <<selected_cities, month_range, selected_weather,
                           selected_period, map_points_slider, ops>>
       ELSE /\ selected_cities' \in SUBSET all_cities
            /\ \E lo \in MonthStops, hi \in MonthStops :
                  lo <= hi /\ month_range' = <<lo, hi>>
            /\ selected_weather' \in SUBSET weather_options
            /\ selected_period' \in Periods
            /\ map_points_slider' \in MapPointsMin..MapPointsMax
            /\ ops' = ops \cup {"widgets"}
            /\ pc' = "sidebar"
    /\ UNCHANGED <<artifact_present, artifact, df_full_data, df_motorcycle_data,
                   filtered_data, map_data, messages>>

\* the month range taken exclusive of its upper end
filter_rows_exclusive_month(df, cities, months, weather, period) ==
    LET a == SelectSeq(df, LAMBDA r : /\ r.city \in cities
                                      /\ months[1] <= r.month /\ r.month < months[2]
                                      /\ r.weather \in weather)
    IN IF period # "All" THEN SelectSeq(a, LAMBDA r : r.period = period) ELSE a

\* app.py:98-104
filter_rows(df, cities, months, weather, period) ==
    LET a == SelectSeq(df, LAMBDA r : /\ r.city \in cities
                                      /\ months[1] <= r.month /\ r.month <= months[2]
                                      /\ r.weather \in weather)
    IN IF period # "All" THEN SelectSeq(a, LAMBDA r : r.period = period) ELSE a

\* the filter stage with the warning shown and st.stop() left out
apply_filters_without_stop ==
    /\ pc = "sidebar"
    /\ filtered_data' = filter_rows(df_motorcycle_data, selected_cities, month_range,
                                    selected_weather, selected_period)
    /\ ops' = ops \cup {"filter"}
    /\ messages' = messages \cup (IF filtered_data' = <<>> THEN {"warning"} ELSE {"info"})
    /\ pc' = "filtered"
    /\ UNCHANGED <<artifact_present, artifact, df_full_data, df_motorcycle_data,
                   selected_cities, month_range, selected_weather, selected_period,
                   map_points_slider, map_data>>

\* app.py:98-108
apply_filters ==
    /\ pc = "sidebar"
    /\ filtered_data' = filter_rows(df_motorcycle_data, selected_cities, month_range,
                                    selected_weather, selected_period)
    /\ ops' = ops \cup {"filter"}
    /\ IF filtered_data' = <<>>
       THEN /\ messages' = messages \cup {"warning"}
            /\ pc' = "stopped_empty"
       ELSE /\ messages' = messages \cup {"info"}
            /\ pc' = "filtered"
    /\ UNCHANGED <<artifact_present, artifact, df_full_data, df_motorcycle_data,
                   selected_cities, month_range, selected_weather, selected_period,
                   map_points_slider, map_data>>

\* app.py:114-142
tab1 ==
    /\ pc = "filtered"
    /\ ops' = ops \cup {"groupby", "chart"}
    /\ pc' = "tab1"
    /\ UNCHANGED <<artifact_present, artifact, df_full_data, df_motorcycle_data,
                   selected_cities, month_range, selected_weather, selected_period,
                   map_points_slider, filtered_data, map_data, messages>>

\* filtered_data[['lat', 'lon']]
lat_lon(df) == [i \in 1..Len(df) |-> [idx |-> df[i].idx, lat |-> df[i].lat, lon |-> df[i].lon]]

\* rows drawn with replacement
sample_with_replacement(df, n) ==
    {[k \in 1..n |-> df[s[k]]] : s \in [1..n -> 1..Len(df)]}

\* DataFrame.sample(n): the tables it can return, n rows drawn without replacement
sample(df, n) ==
    {[k \in 1..n |-> df[s[k]]] :
        s \in {q \in [1..n -> 1..Len(df)] : \A a, b \in 1..n : a # b => q[a] # q[b]}}

\* app.py:145-164
tab2 ==
    /\ pc = "tab1"
    /\ IF Len(filtered_data) > map_points_slider
       THEN map_data' \in sample(lat_lon(filtered_data), map_points_slider)
       ELSE map_data' = lat_lon(filtered_data)
    /\ ops' = ops \cup {"map", "value_counts", "table"}
                  \cup (IF Len(filtered_data) > map_points_slider THEN {"sample"} ELSE {})
                  \cup (IF Cardinality(selected_cities) > 1 THEN {"groupby", "chart"} ELSE {})
    /\ pc' = "tab2"
    /\ UNCHANGED <<artifact_present, artifact, df_full_data, df_motorcycle_data,
                   selected_cities, month_range, selected_weather, selected_period,
                   map_points_slider, filtered_data, messages>>

\* app.py:167-208
tab3 ==
    /\ pc = "tab2"
    /\ ops' = ops \cup {"groupby", "value_counts", "chart"}
    /\ pc' = "tab3"
    /\ UNCHANGED <<artifact_present, artifact, df_full_data, df_motorcycle_data,
                   selected_cities, month_range, selected_weather, selected_period,
                   map_points_slider, filtered_data, map_data, messages>>

\* app.py:211-231
tab4 ==
    /\ pc = "tab3"
    /\ ops' = ops \cup {"value_counts", "chart"}
    /\ pc' = "tab4"
    /\ UNCHANGED <<artifact_present, artifact, df_full_data, df_motorcycle_data,
                   selected_cities, month_range, selected_weather, selected_period,
                   map_points_slider, filtered_data, map_data, messages>>

\* app.py:234-283
tab5 ==
    /\ pc = "tab4"
    /\ ops' = ops \cup {"value_counts", "crosstab", "chart"}
    /\ pc' = "done"
    /\ UNCHANGED <<artifact_present, artifact, df_full_data, df_motorcycle_data,
                   selected_cities, month_range, selected_weather, selected_period,
                   map_points_slider, filtered_data, map_data, messages>>

\* A widget change reruns the script from the top.  Both cached functions
\* (app.py:15, 27) return their stored tables, so the run resumes after them
\* with nothing of the previous run's but those tables.
rerun ==
    /\ pc \in {"done", "stopped_empty"}
    /\ pc' = "analyzed"
    /\ selected_cities' = {}
    /\ month_range' = <<MonthMin, MonthMax>>
    /\ selected_weather' = {}
    /\ selected_period' = "All"
    /\ map_points_slider' = MapPointsMin
    /\ filtered_data' = <<>>
    /\ map_data' = <<>>
    /\ ops' = {}
    /\ messages' = {"success"}
    /\ UNCHANGED <<artifact_present, artifact, df_full_data, df_motorcycle_data>>

Next ==
    \/ load_fast_data
    \/ analyze
    \/ sidebar
    \/ apply_filters
    \/ tab1
    \/ tab2
    \/ tab3
    \/ tab4
    \/ tab5
    \/ rerun

Spec == Init /\ [][Next]_vars

\* the Loader and the Feature Pipeline alone, over the wider set of raw rows
NextPipeline ==
    \/ load_fast_data
    \/ analyze

SpecPipeline == InitPipeline /\ [][NextPipeline]_vars

(***************************************************************************)
(* The claims.                                                             *)
(***************************************************************************)
Cleaned == Rows(df_motorcycle_data)

\* C1 as stated: every retained row's hour is its numeric occurrence time (an
\* HHMM integer) divided by 100 (integer division) and lies in 0..23; time
\* 1430 gives hour 14.
C1_HourIsTimeDiv100 ==
    \A r \in Cleaned :
        r.time_num.v \in 0..2359 =>
            r.hour = r.time_num.v \div 100 /\ r.hour \in 0..23

\* C1 amended: every retained row's hour is the integer quotient of its numeric
\* occurrence time by 10000 (the time read as HHMMSS), so it lies in 0..23
\* exactly when the time lies in 0..239999; time 143000 gives hour 14 and
\* time 1430 gives hour 0.
C1_HourIsTimeDiv10000 ==
    \A r \in Cleaned :
        /\ ~r.time_num.nan
        /\ r.hour * 10000 <= r.time_num.v
        /\ r.time_num.v < (r.hour + 1) * 10000
        /\ (r.hour \in 0..23) <=> (r.time_num.v \in 0..239999)
        /\ r.time = IntCell(143000) => r.hour = 14
        /\ r.time = IntCell(1430) => r.hour = 0

C1_Witness ==
    \E r, q \in Cleaned :
        /\ r.time = IntCell(143000) /\ r.hour = 14
        /\ q.time = IntCell(1430) /\ q.hour = 0

\* the bins of C2, closed at both ends
ClosedBins == <<<<0, 17>>, <<18, 24>>, <<25, 34>>, <<35, 44>>, <<45, 54>>, <<55, 64>>, <<65, 99>>>>
BandLabels == {"0-17", "18-24", "25-34", "35-44", "45-54", "55-64", "65+"}

\* C2: every row of the Cleaned Table, for every retained age in [0,99], has
\* an age_band that is one of the 7 labels, the label of the closed bin holding
\* its age; none has a missing age_band.
C2_AgeBandMatchesBin ==
    \A r \in Cleaned :
        /\ r.age.v \in 0..99
        /\ r.age_band \in BandLabels
        /\ \E i \in 1..7 :
              /\ ClosedBins[i][1] <= r.age.v /\ r.age.v <= ClosedBins[i][2]
              /\ r.age_band = labels[i]

\* C3: a session ends in one of three ways only: the MissingArtifact stop, the
\* EmptyFilterResult stop, or all views rendered; no uncaught exception.
C3_OnlyThreeOutcomes ==
    pc \notin {"start", "loaded", "analyzed", "sidebar", "filtered", "tab1", "tab2", "tab3", "tab4"}
        => pc \in {"stopped_missing", "stopped_empty", "done"}

\* C4: whenever the Filtered Table is empty after the filters are applied, the
\* run shows the no-data warning and stops, with no aggregation, no map
\* sampling and no chart, map or table produced in that run.
C4_EmptyFilterStops ==
    ("filter" \in ops /\ Len(filtered_data) = 0)
        => /\ pc = "stopped_empty"
           /\ "warning" \in messages
           /\ ops \cap (Aggregations \cup Rendering \cup {"sample"}) = {}

C4_Witness ==
    /\ pc = "stopped_empty"
    /\ Len(df_motorcycle_data) > 0
    /\ Len(filtered_data) = 0
    /\ "warning" \in messages

\* C5: with every city and every weather value of the Cleaned Table selected,
\* the month range (1,12) and period "any", the Filtered Table is the
\* Cleaned Table.
C5_FullSelectionKeepsAll ==
    ( /\ "filter" \in ops
      /\ selected_cities = {r.city : r \in Cleaned}
      /\ selected_weather = {r.weather : r \in Cleaned}
      /\ month_range = <<1, 12>>
      /\ selected_period = "All" )
        => filtered_data = df_motorcycle_data

C5_Witness ==
    /\ "filter" \in ops
    /\ Len(df_motorcycle_data) >= 2
    /\ selected_cities = {r.city : r \in Cleaned}
    /\ selected_weather = {r.weather : r \in Cleaned}
    /\ month_range = <<1, 12>>
    /\ selected_period = "All"
    /\ \E r \in Cleaned : r.city_raw = NoneStr /\ r.weather_raw = NoneStr
    /\ \E r \in Cleaned : r.month = 12
    /\ filtered_data = df_motorcycle_data

\* C6: once the map is drawn, the map data holds exactly sample_size rows of
\* the Filtered Table, no row twice, when the Filtered Table has more rows than
\* sample_size, and all its rows otherwise; never more than
\* min(sample_size, len(Filtered Table)) rows.
C6_MapSample ==
    "map" \in ops =>
        LET n == Len(filtered_data)
            k == map_points_slider
        IN /\ n > 0
           /\ Len(map_data) <= (IF k < n THEN k ELSE n)
           /\ \A i \in 1..Len(map_data) : \E j \in 1..n :
                 /\ map_data[i].idx = filtered_data[j].idx
                 /\ map_data[i].lat = filtered_data[j].lat
                 /\ map_data[i].lon = filtered_data[j].lon
           /\ \A i, j \in 1..Len(map_data) : i # j => map_data[i].idx # map_data[j].idx
           /\ IF n > k THEN Len(map_data) = k
                       ELSE Len(map_data) = n /\ Idx(map_data) = Idx(filtered_data)

C6_Witness ==
    /\ "map" \in ops
    /\ "sample" \in ops
    /\ map_points_slider = 2
    /\ Len(filtered_data) = 3
    /\ Len(map_data) = 2

\* C7: every row of the Cleaned Table has weekday in 1..7, 1 = Monday and
\* 7 = Sunday of its parsed occurrence date, and its period is the weekend
\* label if and only if weekday is 6 or 7, otherwise the weekday label.
C7_WeekdayAndPeriod ==
    \A r \in Cleaned :
        /\ r.weekday \in 1..7
        /\ r.period = "Weekend" <=> r.weekday \in {6, 7}
        /\ r.period = "Weekday" <=> r.weekday \in 1..5
        /\ r.date = DateText(2024, 3, 15) => r.weekday = 5
        /\ r.date = DateText(2024, 3, 16) => r.weekday = 6
        /\ r.date = DateText(2024, 3, 17) => r.weekday = 7
        /\ r.date = DateText(2024, 3, 18) => r.weekday = 1

C7_Witness ==
    \E r, q \in Cleaned :
        /\ r.date = DateText(2024, 3, 17) /\ r.period = "Weekend"
        /\ q.date = DateText(2024, 3, 18) /\ q.period = "Weekday"

\* C8: every row of the Cleaned Table is a row of the raw table whose category
\* contains "機車"; its city, weather, month, period, lat and lon are not
\* null; its cause is not null ("未知" when the source cause was missing) and
\* is neither of the two excluded values.
C8_CleanedRowsWellFormed ==
    \A r \in Cleaned :
        /\ \E q \in Rows(df_full_data) :
              /\ q.idx = r.idx
              /\ \A f \in DOMAIN q : r[f] = q[f]
              /\ \E i \in 1..Len(q.category) - 1 :
                    q.category[i] = "ji" /\ q.category[i + 1] = "che"
        /\ r.city # NoneStr
        /\ r.weather # NoneStr
        /\ r.month \in 1..12
        /\ r.period \in {"Weekday", "Weekend"}
        /\ ~r.lat.nan /\ ~r.lon.nan
        /\ r.cause # NoneStr
        /\ r.cause \notin {"NoDriverFactor", "NoFactorFoundYet"}
        /\ r.cause_raw = NoneStr => r.cause = "Unknown"

C8_Witness ==
    /\ \E r \in Cleaned : r.cause_raw = NoneStr /\ r.cause = "Unknown"
    /\ \E q \in Rows(df_full_data) :
          /\ q.cause_raw \in {"NoDriverFactor", "NoFactorFoundYet"}
          /\ q.idx \notin Idx(df_motorcycle_data)

\* C9: with the artifact absent the Loader shows the error and the session
\* stops: no pipeline run, no widget, no chart; with the artifact present the
\* Loader returns its table and never takes the error path.
C9_MissingArtifactStops ==
    /\ ~artifact_present =>
          /\ pc \in {"start", "stopped_missing"}
          /\ pc = "stopped_missing" => "error" \in messages
          /\ ops = {}
          /\ messages \subseteq {"error"}
          /\ df_motorcycle_data = <<>>
    /\ artifact_present =>
          /\ pc # "stopped_missing"
          /\ "error" \notin messages
          /\ pc # "start" => df_full_data = artifact

C9_Witness ==
    /\ ~artifact_present
    /\ pc = "stopped_missing"
    /\ "error" \in messages

====
